---- MODULE Spec2Model ----
(***************************************************************************)
(* Model of the agent_router package: the task-to-specialist matcher       *)
(* (router.py), the catalog accessors it reads (config.py) and the         *)
(* coordination planner (coordination.py).                                 *)
(*                                                                         *)
(* Text is modelled as TLA+ strings, matched character by character.       *)
(* Scores are kept in half points (score 2.0 is 4), confidence values in   *)
(* thousandths (0.3 is 300) and durations in whole hours, so that every    *)
(* comparison of the code is an exact integer comparison.                  *)
(***************************************************************************)
EXTENDS Integers, Sequences, FiniteSets, TLC

(***************************************************************************)
(* Bounds of the model.                                                    *)
(***************************************************************************)
\* the longest task text is MaxWords words of Vocabulary joined by blanks
MaxWords == 2

(***************************************************************************)
(* Python text primitives.                                                 *)
(***************************************************************************)
CharAt(s, i) == SubSeq(s, i, i)

UpperChars == "ABCDEFGHIJKLMNOPQRSTUVWXYZ"

LowerChars == "abcdefghijklmnopqrstuvwxyz"

DigitChars == "0123456789"

\* characters matched by \w in a regular expression
WordChars ==
    {CharAt(UpperChars, i) : i \in 1..26} \cup {CharAt(LowerChars, i) : i \in 1..26}
        \cup {CharAt(DigitChars, i) : i \in 1..10} \cup {"_"}

\* characters matched by \s and recognised by str.strip / str.isspace / str.split
Whitespace == {" ", "\t", "\n", "\r", "\f"}

\* the lower-case letter of each upper-case letter
LowerOf == [c \in {CharAt(UpperChars, i) : i \in 1..26} |->
               CharAt(LowerChars, CHOOSE i \in 1..26 : CharAt(UpperChars, i) = c)]

lower_char(c) == IF c \in DOMAIN LowerOf THEN LowerOf[c] ELSE c

RECURSIVE str_lower(_)
\* str.lower()
str_lower(s) ==
    IF s = "" THEN "" ELSE lower_char(CharAt(s, 1)) \o str_lower(SubSeq(s, 2, Len(s)))

RECURSIVE str_lstrip(_)
str_lstrip(s) ==
    IF s # "" /\ CharAt(s, 1) \in Whitespace THEN str_lstrip(SubSeq(s, 2, Len(s))) ELSE s

RECURSIVE str_rstrip(_)
str_rstrip(s) ==
    IF s # "" /\ CharAt(s, Len(s)) \in Whitespace THEN str_rstrip(SubSeq(s, 1, Len(s) - 1)) ELSE s

\* str.strip()
str_strip(s) == str_rstrip(str_lstrip(s))

\* str.isspace(): non-empty and made of whitespace only
str_isspace(s) == s # "" /\ \A i \in 1..Len(s) : CharAt(s, i) \in Whitespace

\* sub is found in s starting at index i
match_at(sub, s, i) == i >= 1 /\ i + Len(sub) - 1 <= Len(s) /\ SubSeq(s, i, i + Len(sub) - 1) = sub

\* the Python test  sub in s
str_in(sub, s) == \E i \in 1..(Len(s) - Len(sub) + 1) : match_at(sub, s, i)

\* the indices at which the whitespace-separated pieces of s start
split_starts(s) ==
    {i \in 1..Len(s) : CharAt(s, i) \notin Whitespace /\ (i = 1 \/ CharAt(s, i - 1) \in Whitespace)}

\* len(s.split())
split_count(s) == Cardinality(split_starts(s))

\* s.split()[0], for a text with at least one piece
split_first(s) ==
    LET b == CHOOSE i \in split_starts(s) : \A j \in split_starts(s) : i <= j
        e == CHOOSE k \in b..Len(s) :
                 /\ \A j \in b..k : CharAt(s, j) \notin Whitespace
                 /\ (k = Len(s) \/ CharAt(s, k + 1) \in Whitespace)
    IN  SubSeq(s, b, e)

\* \b holds before index p of s (p = Len(s) + 1 is the end of the text)
word_boundary(s, p) ==
    LET before == p >= 2 /\ p - 1 <= Len(s) /\ CharAt(s, p - 1) \in WordChars
        after  == p >= 1 /\ p <= Len(s) /\ CharAt(s, p) \in WordChars
    IN  before # after

word_match_at(w, s, i) ==
    match_at(w, s, i) /\ word_boundary(s, i) /\ word_boundary(s, i + Len(w))

\* re.search(r'\b' + re.escape(w) + r'\b', s)
re_search_word(w, s) == \E i \in 1..(Len(s) + 1) : word_match_at(w, s, i)

\* re.search(r'\b(w1|w2|...)\b', s)
re_search_words(ws, s) == \E w \in ws : re_search_word(w, s)

\* re.search(r'\ba\b.*\b(b1|b2|...)\b', s): '.' does not match a newline
re_search_word_then_words(a, bs, s) ==
    \E i \in 1..Len(s) :
        /\ word_match_at(a, s, i)
        /\ \E j \in (i + Len(a))..Len(s) :
              /\ \E b \in bs : word_match_at(b, s, j)
              /\ \A k \in (i + Len(a))..(j - 1) : CharAt(s, k) # "\n"

\* re.search(r'\b(a1|a2|...)\b.*\bb\b', s)
re_search_words_then_word(as, b, s) ==
    \E a \in as : re_search_word_then_words(a, {b}, s)

\* re.search(r'a\s+(b1|b2|...)', s)
re_search_phrase(a, bs, s) ==
    \E i \in 1..Len(s) :
        /\ match_at(a, s, i)
        /\ \E j \in (i + Len(a) + 1)..Len(s) :
              /\ \E b \in bs : match_at(b, s, j)
              /\ \A k \in (i + Len(a))..(j - 1) : CharAt(s, k) \in Whitespace

RECURSIVE parse_number(_)
\* float() of a text of decimal digits
parse_number(s) ==
    IF s = "" THEN 0
    ELSE 10 * parse_number(SubSeq(s, 1, Len(s) - 1))
            + ((CHOOSE i \in 1..10 : CharAt(DigitChars, i) = CharAt(s, Len(s))) - 1)

(***************************************************************************)
(* Inputs: task values and catalogs.                                       *)
(***************************************************************************)
\* a Python value passed as task: a str, None or an int
StrValue(s) == [type |-> "str", str |-> s, int |-> 0]

NoneValue == [type |-> "NoneType", str |-> "", int |-> 0]

IntValue(n) == [type |-> "int", str |-> "", int |-> n]

\* isinstance(task, str)
is_str(v) == v.type = "str"

\* the truth value Python gives to v in  not v
truthy(v) ==
    CASE v.type = "str" -> v.str # ""
      [] v.type = "int" -> v.int # 0
      [] OTHER -> FALSE

\* the words task texts are built from: keywords, detector words, a word of a
\* specialist's name (designer), upper case, punctuation and whitespace
Vocabulary ==
    {"Frontend", "backend", "design", "designer", "ui", "build",
     "test", "deploy", "mobile", "app", "!!!", "\t\n"}

RECURSIVE join_words(_)
\* ' '.join(ws)
join_words(ws) ==
    IF Len(ws) = 0 THEN ""
    ELSE IF Len(ws) = 1 THEN ws[1]
    ELSE ws[1] \o " " \o join_words(Tail(ws))

TaskStrings == {join_words(ws) : ws \in UNION {[1..n -> Vocabulary] : n \in 0..MaxWords}}

TaskValues == {StrValue(s) : s \in TaskStrings} \cup {NoneValue, IntValue(0), IntValue(123)}

\* the names get_agent_by_name is asked for
NameValues ==
    {StrValue(s) : s \in {"", " ", "\t\n", "Senior Developer", " Senior Developer",
                          "senior developer", "UI Designer", "AI Engineer", "Nobody"}}
        \cup {NoneValue, IntValue(0), IntValue(123)}

\* the protocols of a catalog record: every record names the 11 workflow rules
Protocols ==
    [requirements_gathering_first |-> TRUE,
     test_first_development |-> TRUE,
     workflow_rules |-> [total |-> 11, mandatory |-> TRUE]]

Agent(name, keywords, is_default) ==
    [name |-> name, keywords |-> keywords, is_default |-> is_default,
     protocols |-> Protocols]

\* a catalog over several categories; the default specialist is flagged and
\* is not the first engineering record
CatalogTeam ==
    << [category |-> "engineering", agents |-> <<
            Agent("Frontend Developer", <<"frontend", "react">>, FALSE),
            Agent("Backend Architect", <<"backend", "api">>, FALSE),
            Agent("Senior Developer", <<"app", "code">>, TRUE),
            Agent("DevOps Automator", <<"deploy", "docker">>, FALSE),
            Agent("Mobile App Builder", <<"mobile app">>, FALSE),
            Agent("Rapid Prototyper", <<"mobile", "prototype">>, FALSE) >>],
       [category |-> "design", agents |-> <<
            Agent("UI Designer", <<"ui", "design", "ui design">>, FALSE) >>],
       [category |-> "testing", agents |-> <<
            Agent("Reality Checker", <<"test", "qa">>, FALSE) >>] >>

\* a catalog that lists a tester first and then an engineering category in
\* which five generalists share the keywords frontend and backend; no record
\* is flagged as default
CatalogCrowded ==
    << [category |-> "testing", agents |-> <<
            Agent("Reality Checker", <<"test">>, FALSE) >>],
       [category |-> "engineering", agents |-> <<
            Agent("Senior Developer", <<"frontend", "backend">>, FALSE),
            Agent("Rapid Prototyper", <<"frontend", "backend">>, FALSE),
            Agent("Mobile App Builder", <<"frontend", "backend">>, FALSE),
            Agent("AI Engineer", <<"frontend", "backend">>, FALSE),
            Agent("DevOps Automator", <<"frontend", "backend">>, FALSE),
            Agent("Frontend Developer", <<"react">>, FALSE),
            Agent("Backend Architect", <<"api">>, FALSE) >>] >>

Catalogs == {CatalogTeam, CatalogCrowded}

(***************************************************************************)
(* State.                                                                  *)
(***************************************************************************)
VARIABLES
    agents,   \* AgentConfig.agents: the cached catalog
    op,       \* the operation that ran last, "idle" between calls
    task,     \* the argument it was called with
    raised,   \* the exception it raised, "" when it returned
    ret,      \* the value it returned
    task_states,  \* ProtocolEnforcer._task_states: task id -> the flags set
    files,        \* the file system: path -> parsed content, for the paths that exist
    instance,     \* AgentConfig._instance is not None
    config_path,  \* self.config_path of the singleton
    config_cache, \* AgentConfig._config_cache: None, or the object and its content
    cached_path,  \* AgentConfig._cached_path
    agents_id,    \* the identity of the object self.agents refers to, 0 when unset
    reads         \* the number of times a file was read

vars == <<agents, op, task, raised, ret, task_states,
          files, instance, config_path, config_cache, cached_path, agents_id, reads>>

\* the state of AgentConfig besides self.agents
config_vars == <<files, instance, config_path, config_cache, cached_path, agents_id, reads>>

\* the state a call of the router or the planner leaves alone
enforcer_vars == <<task_states>>

(***************************************************************************)
(* config.py: catalog accessors.                                           *)
(***************************************************************************)
with_category(agent, category) ==
    [name |-> agent.name, keywords |-> agent.keywords,
     is_default |-> agent.is_default, protocols |-> agent.protocols,
     category |-> category]

RECURSIVE flatten_catalog(_)
flatten_catalog(cats) ==
    IF Len(cats) = 0 THEN << >>
    ELSE [i \in 1..Len(cats[1].agents) |-> with_category(cats[1].agents[i], cats[1].category)]
            \o flatten_catalog(Tail(cats))

\* AgentConfig.get_all_agents
get_all_agents(cfg) == flatten_catalog(cfg)

\* AgentConfig.get_agents_by_category
get_agents_by_category(cfg, category) ==
    SelectSeq(get_all_agents(cfg), LAMBDA a : a.category = category)

\* get_default_agent without the is_default test
get_default_agent_first_engineering(cfg) == get_agents_by_category(cfg, "engineering")[1]

\* AgentConfig.get_default_agent: the first flagged record, else the first
\* engineering record
get_default_agent(cfg) ==
    LET all == get_all_agents(cfg)
        flagged == {i \in 1..Len(all) : all[i].is_default}
    IN  IF flagged # {}
        THEN all[CHOOSE i \in flagged : \A j \in flagged : i <= j]
        ELSE get_agents_by_category(cfg, "engineering")[1]

(***************************************************************************)
(* router.py: the matcher.                                                 *)
(***************************************************************************)
\* AgentRouter._detect_multi_agent_patterns: the set of names it returns
detect_multi_agent_patterns(task_lower) ==
    LET builders == {"build", "implement", "create", "develop"}
        full_stack == str_in("full-stack", task_lower) \/ str_in("fullstack", task_lower)
        design_impl ==
            \/ re_search_word_then_words("design", builders, task_lower)
            \/ re_search_words_then_word(builders, "design", task_lower)
        front_back ==
            \/ str_in("frontend", task_lower)
                  /\ (str_in("backend", task_lower) \/ str_in("api", task_lower))
            \/ str_in("backend", task_lower) /\ str_in("frontend", task_lower)
        build_test ==
            /\ re_search_words({"build", "implement", "create"}, task_lower)
            /\ re_search_words({"test", "qa", "quality"}, task_lower)
            /\ ~re_search_phrase("test", {"report", "documentation", "evidence"}, task_lower)
        backend_ctx ==
            str_in("api", task_lower) \/ str_in("backend", task_lower)
                \/ str_in("endpoint", task_lower)
        frontend_ctx ==
            str_in("frontend", task_lower) \/ str_in("ui", task_lower)
                \/ str_in("component", task_lower)
        deploy ==
            str_in("deploy", task_lower) \/ str_in("deployment", task_lower)
                \/ str_in("devops", task_lower)
        design_alone ==
            /\ re_search_word("design", task_lower)
            /\ ~re_search_phrase("design",
                    {"architecture", "database", "api", "event-driven", "microservices"},
                    task_lower)
        dashboard == str_in("dashboard", task_lower)
    IN  (IF full_stack THEN {"Frontend Developer", "Backend Architect"} ELSE {})
        \cup (IF design_impl THEN {"UI Designer", "Frontend Developer"} ELSE {})
        \cup (IF front_back THEN {"Frontend Developer", "Backend Architect"} ELSE {})
        \cup (IF build_test THEN {"Reality Checker"} ELSE {})
        \cup (IF build_test /\ backend_ctx THEN {"Backend Architect"} ELSE {})
        \cup (IF build_test /\ ~backend_ctx /\ frontend_ctx THEN {"Frontend Developer"} ELSE {})
        \cup (IF deploy THEN {"DevOps Engineer"} ELSE {})
        \cup (IF design_alone THEN {"UI Designer"} ELSE {})
        \cup (IF dashboard THEN {"UI Designer", "Frontend Developer"} ELSE {})

\* the half points one keyword adds to a score
keyword_score(task_lower, keyword) ==
    LET keyword_lower == str_lower(keyword)
    IN  IF re_search_word(keyword_lower, task_lower)
        THEN 4 + (split_count(keyword_lower) - 1)
        ELSE IF str_in(keyword_lower, task_lower) THEN 2 ELSE 0

RECURSIVE sum_keyword_scores(_, _)
sum_keyword_scores(task_lower, keywords) ==
    IF Len(keywords) = 0 THEN 0
    ELSE keyword_score(task_lower, keywords[1]) + sum_keyword_scores(task_lower, Tail(keywords))

\* AgentRouter._calculate_agent_score, in half points
calculate_agent_score(task_lower, agent) ==
    sum_keyword_scores(task_lower, agent.keywords)
        + (IF str_in(str_lower(agent.name), task_lower) THEN 10 ELSE 0)

\* the score of analyze_task's loop: keyword score plus the detector boost
boosted_score(task_lower, agent, pattern_names) ==
    calculate_agent_score(task_lower, agent) + (IF agent.name \in pattern_names THEN 6 ELSE 0)

RECURSIVE sort_by_score_ties_reversed(_)
\* a sort that puts the last of several equal scores first
sort_by_score_ties_reversed(scored) ==
    IF Len(scored) = 0 THEN << >>
    ELSE LET top == CHOOSE i \in 1..Len(scored) :
                        /\ \A j \in 1..Len(scored) : scored[j].score <= scored[i].score
                        /\ \A j \in (i + 1)..Len(scored) : scored[j].score < scored[i].score
         IN  <<scored[top]>> \o
                 sort_by_score_ties_reversed(
                     SubSeq(scored, 1, top - 1) \o SubSeq(scored, top + 1, Len(scored)))

RECURSIVE sort_by_score(_)
\* list.sort(key=score, reverse=True): stable, equal scores keep their order
sort_by_score(scored) ==
    IF Len(scored) = 0 THEN << >>
    ELSE LET top == CHOOSE i \in 1..Len(scored) :
                        /\ \A j \in 1..Len(scored) : scored[j].score <= scored[i].score
                        /\ \A j \in 1..(i - 1) : scored[j].score < scored[i].score
         IN  <<scored[top]>> \o
                 sort_by_score(SubSeq(scored, 1, top - 1) \o SubSeq(scored, top + 1, Len(scored)))

\* agent_scores of analyze_task: the positively scored records, ranked
agent_scores(cfg, task_lower, pattern_names) ==
    LET all_agents == get_all_agents(cfg)
        scored == [i \in 1..Len(all_agents) |->
                      [agent |-> all_agents[i],
                       score |-> boosted_score(task_lower, all_agents[i], pattern_names)]]
    IN  sort_by_score(SelectSeq(scored, LAMBDA a : a.score > 0))

\* similar_agents appending the detector-named records without the test
\* that they are not yet listed
similar_agents_appending_again(ranked, pattern_names) ==
    LET top_score == ranked[1].score
        window == SelectSeq(ranked, LAMBDA a : 10 * a.score >= 6 * top_score)
        extra == SelectSeq(ranked, LAMBDA a :
                     a.agent.name \in pattern_names /\ a.score >= 4)
        both == window \o extra
    IN  [i \in 1..Len(both) |-> both[i].agent]

\* similar_agents of analyze_task: the records within 60% of the top score,
\* then the detector-named records scoring at least 2.0 not yet listed
similar_agents(ranked, pattern_names) ==
    LET top_score == ranked[1].score
        window == SelectSeq(ranked, LAMBDA a : 10 * a.score >= 6 * top_score)
        extra == SelectSeq(ranked, LAMBDA a :
                     /\ a.agent.name \in pattern_names
                     /\ a.score >= 4
                     /\ \A i \in 1..Len(window) : window[i].agent # a.agent)
        both == window \o extra
    IN  [i \in 1..Len(both) |-> both[i].agent]

\* fallback_confidence with the factor 0.1 of the other branches
fallback_confidence_tenth(ranked) ==
    IF Len(ranked) = 0 THEN 0
    ELSE LET c == 100 + 50 * ranked[1].score IN IF c < 300 THEN c ELSE 300

\* confidence of the fallback branch, in thousandths
fallback_confidence(ranked) ==
    IF Len(ranked) = 0 THEN 0
    ELSE LET c == 100 + 25 * ranked[1].score IN IF c < 300 THEN c ELSE 300

\* score_confidence without the cap at 1.0
score_confidence_uncapped(raw_score) == 300 + 50 * raw_score

\* confidence of the other branches, in thousandths: min(0.3 + raw_score * 0.1, 1.0)
score_confidence(raw_score) ==
    LET c == 300 + 50 * raw_score IN IF c < 1000 THEN c ELSE 1000

\* required_agents = similar_agents, without the slice
top_five_all(similar) == similar

\* required_agents = similar_agents[:5]
top_five(similar) == SubSeq(similar, 1, IF Len(similar) < 5 THEN Len(similar) ELSE 5)

\* needs_multiple with the threshold 3.0 in place of 2.5
needs_multiple_threshold_three(similar, top_score, pattern_names) ==
    /\ Len(similar) > 1
    /\ \/ Cardinality({similar[i].category : i \in 1..Len(similar)}) > 1
       \/ (Cardinality({similar[i].name : i \in 1..Len(similar)}) > 1 /\ top_score >= 6)
       \/ Cardinality(pattern_names) > 1

\* needs_multiple without the test top_score >= 2.5
needs_multiple_any_score(similar, top_score, pattern_names) ==
    /\ Len(similar) > 1
    /\ \/ Cardinality({similar[i].category : i \in 1..Len(similar)}) > 1
       \/ Cardinality({similar[i].name : i \in 1..Len(similar)}) > 1
       \/ Cardinality(pattern_names) > 1

\* the multi-agent test of analyze_task on the similar agents
needs_multiple(similar, top_score, pattern_names) ==
    LET categories == {similar[i].category : i \in 1..Len(similar)}
        agent_names == {similar[i].name : i \in 1..Len(similar)}
    IN  /\ Len(similar) > 1
        /\ \/ Cardinality(categories) > 1
           \/ Cardinality(agent_names) > 1 /\ top_score >= 5
           \/ Cardinality(pattern_names) > 1

\* analyze_task with several candidates: the similar agents decide
decide_several(ranked, similar, pattern_names) ==
    [is_multi_agent |-> needs_multiple(similar, ranked[1].score, pattern_names),
     required_agents |-> IF needs_multiple(similar, ranked[1].score, pattern_names)
                         THEN top_five(similar)
                         ELSE <<ranked[1].agent>>,
     confidence_score |-> score_confidence(ranked[1].score)]

\* the three branches of analyze_task on the ranked candidates
decide(cfg, ranked, pattern_names) ==
    IF Len(ranked) = 0 \/ ranked[1].score < 4
    THEN [is_multi_agent |-> FALSE,
          required_agents |-> <<get_default_agent(cfg)>>,
          confidence_score |-> fallback_confidence(ranked)]
    ELSE IF Len(ranked) = 1
    THEN [is_multi_agent |-> FALSE,
          required_agents |-> <<ranked[1].agent>>,
          confidence_score |-> score_confidence(ranked[1].score)]
    ELSE decide_several(ranked, similar_agents(ranked, pattern_names), pattern_names)

\* analyze_task once the detectors have run
analyze_with(cfg, task_lower, pattern_names) ==
    decide(cfg, agent_scores(cfg, task_lower, pattern_names), pattern_names)

\* analyze_task on the lower-cased text
analyze_text(cfg, task_lower) ==
    analyze_with(cfg, task_lower, detect_multi_agent_patterns(task_lower))

\* AgentRouter.analyze_task
analyze_task(cfg, t) ==
    analyze_text(cfg, str_lower(IF ~truthy(t) \/ ~is_str(t) THEN "" ELSE t.str))

\* a reading of the analysis that takes the last required specialist
primary_of_last(cfg, analysis) ==
    IF Len(analysis.required_agents) > 0
    THEN analysis.required_agents[Len(analysis.required_agents)]
    ELSE get_default_agent(cfg)

\* select_agent's reading of the analysis
primary_of(cfg, analysis) ==
    IF Len(analysis.required_agents) > 0
    THEN analysis.required_agents[1]
    ELSE get_default_agent(cfg)

\* select_agent on the stripped text
select_text(cfg, text) ==
    IF text = "" \/ str_isspace(text)
    THEN get_default_agent(cfg)
    ELSE primary_of(cfg, analyze_task(cfg, StrValue(text)))

\* AgentRouter.select_agent
select_agent(cfg, t) ==
    select_text(cfg, str_strip(IF ~truthy(t) \/ ~is_str(t) THEN "" ELSE t.str))

(***************************************************************************)
(* coordination.py: the planner.                                           *)
(***************************************************************************)
\* CoordinationPlanner._get_agent_responsibilities
get_agent_responsibilities(agent) ==
    CASE agent.category = "design" ->
            <<"Create design mockups and wireframes", "Define user experience flows",
              "Establish design system and components">>
      [] agent.category = "engineering" /\ str_in("Frontend", agent.name) ->
            <<"Implement UI components", "Integrate with backend APIs",
              "Ensure responsive design">>
      [] agent.category = "engineering" /\ ~str_in("Frontend", agent.name)
                /\ str_in("Backend", agent.name) ->
            <<"Design and implement API endpoints", "Setup database schema",
              "Handle business logic">>
      [] agent.category = "engineering" /\ ~str_in("Frontend", agent.name)
                /\ ~str_in("Backend", agent.name) ->
            <<"Gather and document requirements", "Design technical architecture",
              "Implement core functionality">>
      [] agent.category = "testing" ->
            <<"Write comprehensive test cases", "Perform integration testing",
              "Validate against requirements">>
      [] agent.category = "product" ->
            <<"Define product requirements", "Prioritize features",
              "Coordinate between teams">>
      [] OTHER ->
            <<"Complete assigned tasks", "Follow development protocols",
              "Deliver quality work">>

\* CoordinationPlanner._get_implementation_action
get_implementation_action(agent) ==
    IF str_in("Frontend", agent.name) THEN "Implement frontend components and user interface"
    ELSE IF str_in("Backend", agent.name) THEN "Implement backend APIs and business logic"
    ELSE IF str_in("Mobile", agent.name) THEN "Implement mobile application features"
    ELSE IF str_in("AI", agent.name) THEN "Implement AI models and integration"
    ELSE IF str_in("DevOps", agent.name) THEN "Setup deployment pipeline and infrastructure"
    ELSE "Implement core functionality and features"

\* CoordinationPlanner._get_implementation_deliverable
get_implementation_deliverable(agent) ==
    IF str_in("Frontend", agent.name) THEN "Working frontend with all UI components"
    ELSE IF str_in("Backend", agent.name) THEN "Functional backend with tested API endpoints"
    ELSE IF str_in("Mobile", agent.name) THEN "Tested mobile application build"
    ELSE IF str_in("AI", agent.name) THEN "Trained models and integration code"
    ELSE IF str_in("DevOps", agent.name) THEN "Deployment pipeline and infrastructure code"
    ELSE "Implemented functionality with tests"

\* _generate_sequence keeps the list built so far and the step_number counter
\* sequence.append({...}); step_number += 1
add_step(st, agent_name, action, deliverable, duration, protocols) ==
    [sequence |-> Append(st.sequence,
                      [step_number |-> st.step_number, agent |-> agent_name,
                       action |-> action, deliverable |-> deliverable,
                       duration |-> duration, protocols |-> protocols]),
     step_number |-> st.step_number + 1]

is_designer(agent) == str_in("Designer", agent.name) \/ str_in("UX", agent.name)

is_tester(agent) == str_in("Tester", agent.name) \/ str_in("Checker", agent.name)

\* next((a for a in agents if ...), fallback), hits being the indices that pass the test
first_or(plan_agents, hits, fallback) ==
    IF hits # {}
    THEN plan_agents[CHOOSE i \in hits : \A j \in hits : i <= j]
    ELSE fallback

designer_indices(plan_agents) == {i \in 1..Len(plan_agents) : is_designer(plan_agents[i])}

tester_indices(plan_agents) == {i \in 1..Len(plan_agents) : is_tester(plan_agents[i])}

requirements_phase(st, primary_agent) ==
    add_step(st, primary_agent.name, "Gather and document requirements",
             "Requirements document with clear specifications", "2 hours",
             <<"Requirements gathering first", "Create TODO list", "Git branch setup">>)

design_phase(st, plan_agents) ==
    IF designer_indices(plan_agents) # {}
    THEN add_step(st, first_or(plan_agents, designer_indices(plan_agents), plan_agents[1]).name,
                  "Design system architecture and user interface",
                  "Design mockups, wireframes, and component library", "4 hours",
                  <<"Follow design system", "Create reusable components", "Document decisions">>)
    ELSE st

RECURSIVE implementation_phase(_, _)
implementation_phase(st, plan_agents) ==
    IF Len(plan_agents) = 0 THEN st
    ELSE LET agent == plan_agents[1]
             next == IF ~is_designer(agent) /\ ~is_tester(agent)
                     THEN add_step(st, agent.name, get_implementation_action(agent),
                                   get_implementation_deliverable(agent), "6 hours",
                                   <<"Test-first development", "Git commits",
                                     "Virtual environment", "Follow TODO list">>)
                     ELSE st
         IN  implementation_phase(next, Tail(plan_agents))

\* testing_phase attributing the step to a fixed tester name
testing_phase_fixed_tester(st, plan_agents, primary_agent, task_lower) ==
    IF \E word \in {"build", "implement", "create", "develop"} : str_in(word, task_lower)
    THEN add_step(st, "Reality Checker",
                  "Test implementation and validate requirements",
                  "Test results, bug reports, and validation report", "3 hours",
                  <<"Comprehensive testing", "Test coverage", "QA checklist">>)
    ELSE st

testing_phase(st, plan_agents, primary_agent, task_lower) ==
    IF \E word \in {"build", "implement", "create", "develop"} : str_in(word, task_lower)
    THEN add_step(st, first_or(plan_agents, tester_indices(plan_agents), primary_agent).name,
                  "Test implementation and validate requirements",
                  "Test results, bug reports, and validation report", "3 hours",
                  <<"Comprehensive testing", "Test coverage", "QA checklist">>)
    ELSE st

is_devops(agent) == str_in("DevOps", agent.name)

devops_indices(plan_agents) == {i \in 1..Len(plan_agents) : is_devops(plan_agents[i])}

\* deployment_phase attributing the step to a fixed DevOps name
deployment_phase_fixed_devops(st, plan_agents, primary_agent, task_lower) ==
    IF \E word \in {"deploy", "deployment", "production", "release"} : str_in(word, task_lower)
    THEN add_step(st, "DevOps Engineer",
                  "Deploy to production and setup monitoring",
                  "Deployed application with monitoring and CI/CD pipeline", "4 hours",
                  <<"Infrastructure as code", "Automated deployment", "Monitoring setup">>)
    ELSE st

deployment_phase(st, plan_agents, primary_agent, task_lower) ==
    IF \E word \in {"deploy", "deployment", "production", "release"} : str_in(word, task_lower)
    THEN add_step(st, first_or(plan_agents, devops_indices(plan_agents), primary_agent).name,
                  "Deploy to production and setup monitoring",
                  "Deployed application with monitoring and CI/CD pipeline", "4 hours",
                  <<"Infrastructure as code", "Automated deployment", "Monitoring setup">>)
    ELSE st

\* _generate_sequence with the testing phase ahead of the implementation phase
generate_sequence_test_first(plan_agents, text) ==
    deployment_phase(
        implementation_phase(
            testing_phase(
                design_phase(
                    requirements_phase([sequence |-> << >>, step_number |-> 1], plan_agents[1]),
                    plan_agents),
                plan_agents, plan_agents[1], str_lower(text)),
            plan_agents),
        plan_agents, plan_agents[1], str_lower(text)).sequence

\* CoordinationPlanner._generate_sequence, for a task that has str.lower
generate_sequence(plan_agents, text) ==
    LET primary_agent == plan_agents[1]
        task_lower == str_lower(text)
        st1 == requirements_phase([sequence |-> << >>, step_number |-> 1], primary_agent)
        st2 == design_phase(st1, plan_agents)
        st3 == implementation_phase(st2, plan_agents)
        st4 == testing_phase(st3, plan_agents, primary_agent, task_lower)
        st5 == deployment_phase(st4, plan_agents, primary_agent, task_lower)
    IN  st5.sequence

\* CoordinationPlanner._get_success_criteria
get_success_criteria(from_step) ==
    <<"All deliverables completed and documented", "Code committed to git repository">>
        \o (IF str_in("requirements", str_lower(from_step.action))
            THEN <<"Requirements clearly defined and validated",
                   "Acceptance criteria documented">> ELSE << >>)
        \o (IF str_in("design", str_lower(from_step.action))
            THEN <<"Design approved by stakeholders", "All components documented">> ELSE << >>)
        \o (IF str_in("implement", str_lower(from_step.action))
            THEN <<"All tests passing", "Code review completed">> ELSE << >>)

\* _generate_handoffs handing every deliverable to the specialist of the last step
RECURSIVE handoffs_from_to_last(_, _)
handoffs_from_to_last(sequence, i) ==
    IF i > Len(sequence) - 1 THEN << >>
    ELSE (IF sequence[i].agent # sequence[i + 1].agent
          THEN << [from_agent |-> sequence[i].agent,
                   to_agent |-> sequence[Len(sequence)].agent,
                   deliverable |-> sequence[i].deliverable,
                   success_criteria |-> get_success_criteria(sequence[i])] >>
          ELSE << >>) \o handoffs_from_to_last(sequence, i + 1)

RECURSIVE handoffs_from(_, _)
handoffs_from(sequence, i) ==
    IF i > Len(sequence) - 1 THEN << >>
    ELSE (IF sequence[i].agent # sequence[i + 1].agent
          THEN << [from_agent |-> sequence[i].agent,
                   to_agent |-> sequence[i + 1].agent,
                   deliverable |-> sequence[i].deliverable,
                   success_criteria |-> get_success_criteria(sequence[i])] >>
          ELSE << >>) \o handoffs_from(sequence, i + 1)

\* _generate_handoffs without the test that the two specialists differ
generate_handoffs_every_pair(sequence) ==
    [i \in 1..(Len(sequence) - 1) |->
        [from_agent |-> sequence[i].agent,
         to_agent |-> sequence[i + 1].agent,
         deliverable |-> sequence[i].deliverable,
         success_criteria |-> get_success_criteria(sequence[i])]]

\* CoordinationPlanner._generate_handoffs
generate_handoffs(sequence) == handoffs_from(sequence, 1)

\* _map_dependencies making a step depend on all previous steps
map_dependencies_all_previous(sequence) ==
    [n \in {sequence[i].step_number : i \in {j \in 1..Len(sequence) : sequence[j].step_number > 1}}
        |-> [k \in 1..(n - 1) |-> k]]

\* CoordinationPlanner._map_dependencies
map_dependencies(sequence) ==
    [n \in {sequence[i].step_number : i \in {j \in 1..Len(sequence) : sequence[j].step_number > 1}}
        |-> <<n - 1>>]

\* the hours _estimate_time reads from one duration text
duration_hours(duration) ==
    IF str_in("hour", duration) THEN parse_number(split_first(duration)) ELSE 0

RECURSIVE total_hours_but_last(_)
\* total_hours leaving out the last step
total_hours_but_last(sequence) ==
    IF Len(sequence) <= 1 THEN 0
    ELSE duration_hours(sequence[1].duration) + total_hours_but_last(Tail(sequence))

RECURSIVE total_hours(_)
total_hours(sequence) ==
    IF Len(sequence) = 0 THEN 0
    ELSE duration_hours(sequence[1].duration) + total_hours(Tail(sequence))

\* CoordinationPlanner._estimate_time
estimate_time(sequence) ==
    [total |-> total_hours(sequence),
     unit |-> "hours",
     breakdown |-> [n \in {sequence[i].step_number : i \in 1..Len(sequence)} |->
                       sequence[CHOOSE i \in 1..Len(sequence) :
                                    /\ sequence[i].step_number = n
                                    /\ \A j \in (i + 1)..Len(sequence) :
                                           sequence[j].step_number # n].duration]]

\* CoordinationPlanner._identify_parallel_work
identify_parallel_work(plan_agents) ==
    LET has_frontend == \E i \in 1..Len(plan_agents) : str_in("Frontend", plan_agents[i].name)
        has_backend == \E i \in 1..Len(plan_agents) : str_in("Backend", plan_agents[i].name)
        impl == SelectSeq(plan_agents, LAMBDA a :
                    /\ ~str_in("Designer", a.name)
                    /\ ~str_in("Tester", a.name)
                    /\ ~str_in("Product", a.name))
        impl_agents == [i \in 1..Len(impl) |-> impl[i].name]
    IN  (IF has_frontend /\ has_backend
         THEN << <<"Frontend Developer", "Backend Architect">> >> ELSE << >>)
        \o (IF Len(plan_agents) >= 3 /\ Len(impl_agents) >= 2
            THEN <<impl_agents>> ELSE << >>)

\* generate_plan once the sequence is built
assemble_plan(t, plan_agents, sequence) ==
    [raised |-> "",
     plan |-> [task |-> t,
               agents |-> [i \in 1..Len(plan_agents) |->
                              [name |-> plan_agents[i].name,
                               category |-> plan_agents[i].category,
                               role |-> plan_agents[i].category,
                               responsibilities |->
                                   get_agent_responsibilities(plan_agents[i])]],
               sequence |-> sequence,
               handoff_points |-> generate_handoffs(sequence),
               dependencies |-> map_dependencies(sequence),
               estimated_time |-> estimate_time(sequence),
               parallel_groups |-> identify_parallel_work(plan_agents)]]

\* generate_plan once the agents are chosen; task.lower() in _generate_sequence
\* raises AttributeError for a value that is not a str
plan_with(t, plan_agents) ==
    IF ~is_str(t)
    THEN [raised |-> "AttributeError", plan |-> << >>]
    ELSE assemble_plan(t, plan_agents, generate_sequence(plan_agents, t.str))

\* generate_plan's choice of agents from the analysis
plan_for(cfg, t, analysis) ==
    plan_with(t, IF analysis.is_multi_agent
                 THEN analysis.required_agents
                 ELSE <<select_agent(cfg, t)>>)

RECURSIVE find_by_name(_, _, _)
find_by_name(all_agents, name, i) ==
    IF i > Len(all_agents) THEN NoneValue
    ELSE IF all_agents[i].name = name THEN all_agents[i]
    ELSE find_by_name(all_agents, name, i + 1)

\* AgentConfig.get_agent_by_name: the first record of that exact name, or None
config_get_agent_by_name(cfg, name) == find_by_name(get_all_agents(cfg), name, 1)

\* get_agent_by_name looking up the stripped name
get_agent_by_name_stripped(cfg, n) ==
    IF ~truthy(n) THEN [raised |-> "ValidationError", value |-> NoneValue]
    ELSE IF ~is_str(n) THEN [raised |-> "AttributeError", value |-> NoneValue]
    ELSE IF str_strip(n.str) = "" THEN [raised |-> "ValidationError", value |-> NoneValue]
    ELSE [raised |-> "", value |-> config_get_agent_by_name(cfg, str_strip(n.str))]

\* AgentRouter.get_agent_by_name: the record or None, or the exception raised;
\* name.strip() raises AttributeError for a truthy value that is not a str
get_agent_by_name(cfg, n) ==
    IF ~truthy(n) THEN [raised |-> "ValidationError", value |-> NoneValue]
    ELSE IF ~is_str(n) THEN [raised |-> "AttributeError", value |-> NoneValue]
    ELSE IF str_strip(n.str) = "" THEN [raised |-> "ValidationError", value |-> NoneValue]
    ELSE [raised |-> "", value |-> config_get_agent_by_name(cfg, n.str)]

\* CoordinationPlanner.generate_plan: the plan, or the exception it raises
generate_plan(cfg, t) == plan_for(cfg, t, analyze_task(cfg, t))

\* the lines generate_coordination_plan writes for the specialists from the i-th on
RECURSIVE coordination_lines(_, _)
coordination_lines(plan_agents, i) ==
    IF i > Len(plan_agents) THEN << >>
    ELSE (IF i = 1 THEN <<"Gather requirements and plan approach">> ELSE << >>)
         \o <<plan_agents[i].name \o ": Design " \o plan_agents[i].category \o " architecture",
              plan_agents[i].name \o ": Build and implement solution">>
         \o (IF i < Len(plan_agents)
             THEN <<"Handoff to " \o plan_agents[i + 1].name>> ELSE << >>)
         \o coordination_lines(plan_agents, i + 1)

\* generate_coordination_plan on the specialists it chose
coordination_plan_of(plan_agents) ==
    [agents |-> plan_agents,
     sequence |-> coordination_lines(plan_agents, 1),
     handoff_points |->
         [i \in 1..(Len(plan_agents) - 1) |->
             [from |-> plan_agents[i].name,
              to |-> plan_agents[i + 1].name,
              deliverables |-> <<"Requirements document", "Implementation">>]]]

\* generate_coordination_plan's choice of specialists from the analysis
coordination_plan_for(cfg, t, analysis) ==
    coordination_plan_of(IF analysis.is_multi_agent
                         THEN analysis.required_agents
                         ELSE <<select_agent(cfg, t)>>)

\* AgentRouter.generate_coordination_plan
generate_coordination_plan(cfg, t) == coordination_plan_for(cfg, t, analyze_task(cfg, t))

\* protocols['workflow_rules']['total_rules'] = protocols['workflow_rules'].get('total', 11),
\* as the dict after the assignment
with_total_rules(workflow_rules) ==
    [key \in DOMAIN workflow_rules \cup {"total_rules"} |->
        IF key = "total_rules"
        THEN (IF "total" \in DOMAIN workflow_rules THEN workflow_rules.total ELSE 11)
        ELSE workflow_rules[key]]

\* what get_agent_protocols returns when the record is missing or has no protocols
DefaultProtocols ==
    [requirements_gathering_first |-> TRUE,
     test_first_development |-> TRUE,
     workflow_rules |-> [total |-> 11, total_rules |-> 11, mandatory |-> TRUE]]

\* the record config.get_agent_by_name hands to get_agent_protocols; a name
\* that is not a str equals no record's name
protocols_record(cfg, n) ==
    IF is_str(n) THEN config_get_agent_by_name(cfg, n.str) ELSE NoneValue

\* does get_agent_protocols write total_rules for this record
writes_total_rules(agent) ==
    /\ agent # NoneValue
    /\ "protocols" \in DOMAIN agent
    /\ "workflow_rules" \in DOMAIN agent.protocols

\* is the i-th record of the c-th category the one get_agent_by_name finds
found_at(cfg, name, c, i) ==
    /\ cfg[c].agents[i].name = name
    /\ \A d \in 1..c : \A j \in 1..Len(cfg[d].agents) :
           (d < c \/ j < i) => cfg[d].agents[j].name # name

\* agent['protocols'].copy() with total_rules written: the copy is shallow, its
\* workflow_rules is the dict of the record
protocols_copy_with_total_rules(protocols) ==
    [protocols EXCEPT !.workflow_rules = with_total_rules(@)]

\* the catalog after get_agent_protocols: {**agent, 'category': category} and
\* .copy() share the nested workflow_rules dict with the cached record, so the
\* assignment of total_rules is an assignment in the cached catalog
catalog_after_get_agent_protocols(cfg, n) ==
    [c \in 1..Len(cfg) |->
        [category |-> cfg[c].category,
         agents |-> [i \in 1..Len(cfg[c].agents) |->
             IF is_str(n) /\ found_at(cfg, n.str, c, i) /\ writes_total_rules(cfg[c].agents[i])
             THEN [cfg[c].agents[i] EXCEPT !.protocols =
                       protocols_copy_with_total_rules(@)]
             ELSE cfg[c].agents[i]]]]

\* AgentRouter.get_agent_protocols: the protocols returned
get_agent_protocols(cfg, n) ==
    IF writes_total_rules(protocols_record(cfg, n))
    THEN protocols_copy_with_total_rules(protocols_record(cfg, n).protocols)
    ELSE IF protocols_record(cfg, n) # NoneValue
              /\ "protocols" \in DOMAIN protocols_record(cfg, n)
    THEN protocols_record(cfg, n).protocols
    ELSE DefaultProtocols

(***************************************************************************)
(* AgentConfig: the singleton, the class-level cache and the files it      *)
(* loads.                                                                  *)
(***************************************************************************)
MaxReads == 3

DefaultPath == "agents.yaml"

OtherPath == "/tmp/other.yaml"

EmptyPath == "/tmp/empty.yaml"

DuplicatePath == "/tmp/duplicate.yaml"

MissingPath == "/invalid/path"

Paths == {DefaultPath, OtherPath, EmptyPath, DuplicatePath, MissingPath}

\* a file whose two records have one name
CatalogDuplicate ==
    << [category |-> "engineering",
        agents |-> << Agent("Senior Developer", <<"app">>, TRUE),
                      Agent("Senior Developer", <<"code">>, FALSE) >>] >>

\* what yaml.safe_load returns for a file of categories
DictValue(catalog) == [type |-> "dict", dict |-> catalog]

\* the files on disk when the default file holds catalog; yaml.safe_load gives
\* None for the empty file
FileSystem(catalog) ==
    [path \in {DefaultPath, OtherPath, EmptyPath, DuplicatePath} |->
        CASE path = DefaultPath -> DictValue(catalog)
          [] path = OtherPath ->
                 DictValue(IF catalog = CatalogTeam THEN CatalogCrowded ELSE CatalogTeam)
          [] path = EmptyPath -> NoneValue
          [] OTHER -> DictValue(CatalogDuplicate)]

\* AgentConfig._validate_config: some category, keywords on every record and
\* no name twice
validate_records(records) ==
    /\ \A i \in 1..Len(records) : Len(records[i].keywords) > 0
    /\ \A i, j \in 1..Len(records) : records[i].name = records[j].name => i = j

validate_config(config) == Len(config) > 0 /\ validate_records(flatten_catalog(config))

\* the reading and validating shared by _load_config and _load_from_path:
\* whether the file was read, and the content when it is accepted
load_file(fs, path) ==
    IF path \notin DOMAIN fs
    THEN [read |-> FALSE, raised |-> "AgentConfigError", content |-> << >>]
    ELSE IF fs[path].type = "NoneType"
    THEN [read |-> TRUE, raised |-> "AgentConfigError", content |-> << >>]
    ELSE IF ~validate_config(fs[path].dict)
    THEN [read |-> TRUE, raised |-> "AgentConfigError", content |-> << >>]
    ELSE [read |-> TRUE, raised |-> "", content |-> fs[path].dict]

\* __init__ with the test on the cache always true
needs_load_always(cache, cache_path, path) == TRUE

\* __init__: load if not cached or path changed
needs_load(cache, cache_path, path) == cache = NoneValue \/ cache_path # path

\* the object a successful read creates
new_object(content, count) == [id |-> count + 1, content |-> content]

\* the state AgentConfig() leaves on the default path holding catalog
Constructed(catalog) ==
    /\ files = FileSystem(catalog)
    /\ instance = TRUE
    /\ config_path = DefaultPath
    /\ config_cache = new_object(catalog, 0)
    /\ cached_path = DefaultPath
    /\ agents_id = 1
    /\ reads = 1

(***************************************************************************)
(* The state machine: a caller applies one operation to one task value,    *)
(* reads the outcome and goes back to idle.                                *)
(***************************************************************************)
Init ==
    /\ agents \in Catalogs
    /\ op = "idle"
    /\ task = NoneValue
    /\ raised = ""
    /\ ret = << >>
    /\ task_states = << >>
    /\ Constructed(agents)

SelectAgent(t) ==
    /\ op = "idle"
    /\ op' = "select_agent"
    /\ task' = t
    /\ raised' = ""
    /\ ret' = select_agent(agents, t)
    /\ UNCHANGED <<agents, enforcer_vars, config_vars>>

AnalyzeTask(t) ==
    /\ op = "idle"
    /\ op' = "analyze_task"
    /\ task' = t
    /\ raised' = ""
    /\ ret' = analyze_task(agents, t)
    /\ UNCHANGED <<agents, enforcer_vars, config_vars>>

GeneratePlan(t) ==
    /\ op = "idle"
    /\ op' = "generate_plan"
    /\ task' = t
    /\ \E out \in {generate_plan(agents, t)} : raised' = out.raised /\ ret' = out.plan
    /\ UNCHANGED <<agents, enforcer_vars, config_vars>>

GetAgentByName(n) ==
    /\ op = "idle"
    /\ op' = "get_agent_by_name"
    /\ task' = n
    /\ \E out \in {get_agent_by_name(agents, n)} : raised' = out.raised /\ ret' = out.value
    /\ UNCHANGED <<agents, enforcer_vars, config_vars>>

GenerateCoordinationPlan(t) ==
    /\ op = "idle"
    /\ op' = "generate_coordination_plan"
    /\ task' = t
    /\ raised' = ""
    /\ ret' = generate_coordination_plan(agents, t)
    /\ UNCHANGED <<agents, enforcer_vars, config_vars>>

\* the router's catalog is the cached object, so the write is seen in both
GetAgentProtocols(n) ==
    /\ op = "idle"
    /\ op' = "get_agent_protocols"
    /\ task' = n
    /\ raised' = ""
    /\ ret' = get_agent_protocols(agents, n)
    /\ agents' = catalog_after_get_agent_protocols(agents, n)
    /\ config_cache' = [config_cache EXCEPT !.content =
                            catalog_after_get_agent_protocols(agents, n)]
    /\ UNCHANGED <<enforcer_vars, files, instance, config_path, cached_path, agents_id, reads>>

\* the caller drops the outcome
Return ==
    /\ op # "idle"
    /\ op' = "idle"
    /\ task' = NoneValue
    /\ raised' = ""
    /\ ret' = << >>
    /\ UNCHANGED <<agents, enforcer_vars, config_vars>>

Next ==
    \/ \E t \in TaskValues : SelectAgent(t)
    \/ \E t \in TaskValues : AnalyzeTask(t)
    \/ \E t \in TaskValues : GeneratePlan(t)
    \/ \E n \in NameValues : GetAgentByName(n)
    \/ Return

Spec == Init /\ [][Next]_vars

(***************************************************************************)
(* The router on its cached catalog: the calls that read the catalog and   *)
(* the look-up of a record's protocols.                                    *)
(***************************************************************************)
MaxCatalogWords == 1

CatalogTaskValues ==
    {StrValue(join_words(ws)) : ws \in UNION {[1..n -> Vocabulary] : n \in 0..MaxCatalogWords}}
        \cup {NoneValue, IntValue(123)}

NextCatalog ==
    \/ \E t \in CatalogTaskValues : SelectAgent(t)
    \/ \E t \in CatalogTaskValues : AnalyzeTask(t)
    \/ \E t \in CatalogTaskValues : GenerateCoordinationPlan(t)
    \/ \E n \in NameValues : GetAgentProtocols(n)
    \/ Return

SpecCatalog == Init /\ [][NextCatalog]_vars

(***************************************************************************)
(* AgentConfig as a state machine: constructions, reload, _load_from_path  *)
(* and clear_cache in any order.  A reading step is taken while fewer than *)
(* MaxReads reads were made.                                               *)
(***************************************************************************)
\* before the first AgentConfig() of the process
InitConfig ==
    /\ files \in {FileSystem(catalog) : catalog \in Catalogs}
    /\ instance = FALSE
    /\ config_path = ""
    /\ config_cache = NoneValue
    /\ cached_path = ""
    /\ agents = << >>
    /\ agents_id = 0
    /\ reads = 0
    /\ op = "idle"
    /\ task = NoneValue
    /\ raised = ""
    /\ ret = << >>
    /\ task_states = << >>

\* __init__ when the cache serves: self.agents = AgentConfig._config_cache
construct_cached(path) ==
    /\ raised' = ""
    /\ agents' = config_cache.content
    /\ agents_id' = config_cache.id
    /\ UNCHANGED <<config_cache, cached_path, reads>>

\* __init__ when _load_config runs: the exception leaves the cache, the cached
\* path and self.agents as they were
construct_loading(path, loaded) ==
    /\ loaded.read => reads < MaxReads
    /\ reads' = IF loaded.read THEN reads + 1 ELSE reads
    /\ raised' = loaded.raised
    /\ IF loaded.raised = ""
       THEN /\ config_cache' = new_object(loaded.content, reads)
            /\ cached_path' = path
            /\ agents' = loaded.content
            /\ agents_id' = reads + 1
       ELSE UNCHANGED <<config_cache, cached_path, agents, agents_id>>

\* AgentConfig(path): __new__ keeps or creates the singleton, __init__ sets
\* config_path and loads unless the cache was made for that path
Construct(path) ==
    /\ op' = "AgentConfig"
    /\ task' = StrValue(path)
    /\ ret' = << >>
    /\ instance' = TRUE
    /\ config_path' = path
    /\ IF needs_load(config_cache, cached_path, path)
       THEN construct_loading(path, load_file(files, path))
       ELSE construct_cached(path)
    /\ UNCHANGED <<files, task_states>>

\* reload(): the cache is dropped, then _load_config reads self.config_path
reload_with(loaded) ==
    /\ loaded.read => reads < MaxReads
    /\ reads' = IF loaded.read THEN reads + 1 ELSE reads
    /\ raised' = loaded.raised
    /\ IF loaded.raised = ""
       THEN /\ config_cache' = new_object(loaded.content, reads)
            /\ agents' = loaded.content
            /\ agents_id' = reads + 1
       ELSE /\ config_cache' = NoneValue
            /\ UNCHANGED <<agents, agents_id>>

Reload ==
    /\ instance
    /\ op' = "reload"
    /\ task' = NoneValue
    /\ ret' = << >>
    /\ reload_with(load_file(files, config_path))
    /\ UNCHANGED <<files, instance, config_path, cached_path, task_states>>

\* _load_from_path(path): self.agents is replaced, the cache is not
load_from_path_with(loaded) ==
    /\ loaded.read => reads < MaxReads
    /\ reads' = IF loaded.read THEN reads + 1 ELSE reads
    /\ raised' = loaded.raised
    /\ IF loaded.raised = ""
       THEN agents' = loaded.content /\ agents_id' = reads + 1
       ELSE UNCHANGED <<agents, agents_id>>

LoadFromPath(path) ==
    /\ instance
    /\ op' = "_load_from_path"
    /\ task' = StrValue(path)
    /\ ret' = << >>
    /\ load_from_path_with(load_file(files, path))
    /\ UNCHANGED <<files, instance, config_path, config_cache, cached_path, task_states>>

\* clear_cache(): the singleton and the cache are dropped
ClearCache ==
    /\ op' = "clear_cache"
    /\ task' = NoneValue
    /\ raised' = ""
    /\ ret' = << >>
    /\ instance' = FALSE
    /\ config_path' = ""
    /\ config_cache' = NoneValue
    /\ cached_path' = ""
    /\ agents' = << >>
    /\ agents_id' = 0
    /\ UNCHANGED <<files, reads, task_states>>

NextConfig ==
    \/ \E path \in Paths : Construct(path)
    \/ Reload
    \/ \E path \in Paths : LoadFromPath(path)
    \/ ClearCache

SpecConfig == InitConfig /\ [][NextConfig]_vars

(***************************************************************************)
(* Properties of the matcher.                                              *)
(***************************************************************************)
\* the text analyze_task works on for the task of the last call
TaskLower == str_lower(IF is_str(task) THEN task.str ELSE "")

\* the ranked candidates and detector names of the last call
PatternNames == detect_multi_agent_patterns(TaskLower)

Ranked == agent_scores(agents, TaskLower, PatternNames)

RequiredNames == {ret.required_agents[i].name : i \in 1..Len(ret.required_agents)}

\* C1: for every task value and catalog, the confidence_score returned by
\* analyze_task lies in [0.0, 1.0] on the fallback branch, the branch with one
\* candidate and the branch with several candidates.
C1_ConfidenceInUnitInterval ==
    op = "analyze_task" => ret.confidence_score >= 0 /\ ret.confidence_score <= 1000

\* a top score above 7.0, where only the cap keeps the confidence at 1.0
C1_Witness ==
    /\ op = "analyze_task"
    /\ Len(Ranked) >= 1
    /\ Ranked[1].score > 14
    /\ ret.confidence_score = 1000

AllAgents == get_all_agents(agents)

CatalogNames == {AllAgents[i].name : i \in 1..Len(AllAgents)}

\* the catalog's default record, read off the catalog: the flagged record, or
\* the first engineering record when none is flagged
DefaultSpecialist ==
    IF \E i \in 1..Len(AllAgents) : AllAgents[i].is_default
    THEN CHOOSE a \in {AllAgents[i] : i \in 1..Len(AllAgents)} : a.is_default
    ELSE LET k == CHOOSE c \in 1..Len(agents) : agents[c].category = "engineering"
         IN  with_category(agents[k].agents[1], "engineering")

\* C2: for every task whose lower-cased text contains both 'frontend' and
\* 'backend', with a catalog holding 'Frontend Developer' and 'Backend
\* Architect', analyze_task returns is_multi_agent = true and both are among
\* required_agents, whatever the other specialists score.
C2_FrontendBackendBothRequired ==
    (/\ op = "analyze_task"
     /\ is_str(task)
     /\ str_in("frontend", TaskLower)
     /\ str_in("backend", TaskLower)
     /\ {"Frontend Developer", "Backend Architect"} \subseteq CatalogNames)
    => /\ ret.is_multi_agent
       /\ {"Frontend Developer", "Backend Architect"} \subseteq RequiredNames

\* every positively scored specialist is of one category, the top score is at
\* least 2.0 and the detectors name at most one specialist
SingleCategoryStrong(ranked, pattern_names) ==
    /\ Len(ranked) >= 1
    /\ \A i \in 1..Len(ranked) : ranked[i].agent.category = ranked[1].agent.category
    /\ ranked[1].score >= 4
    /\ Cardinality(pattern_names) <= 1

\* no other candidate scores 60% of the top score or is detector-named with a
\* score of at least 2.0
TopStandsAlone(ranked, pattern_names) ==
    \A i \in 2..Len(ranked) :
        /\ 10 * ranked[i].score < 6 * ranked[1].score
        /\ ~(ranked[i].agent.name \in pattern_names /\ ranked[i].score >= 4)

IsSingleSpecialist == ~ret.is_multi_agent /\ Len(ret.required_agents) = 1

\* C3 as stated: whenever every positively scored specialist belongs to the
\* same category, the top score is at least 2.0 and the detectors name at most
\* one specialist, analyze_task returns is_multi_agent = false with exactly one
\* required specialist.
C3_SingleCategoryIsSingle ==
    (op = "analyze_task" /\ SingleCategoryStrong(Ranked, PatternNames)) => IsSingleSpecialist

\* C3 amended: under the same conditions the result is single-specialist when
\* moreover the top score is below 2.5 or no other specialist is in the
\* similar set.
C3_SingleCategoryWeakOrAloneIsSingle ==
    (/\ op = "analyze_task"
     /\ SingleCategoryStrong(Ranked, PatternNames)
     /\ (Ranked[1].score < 5 \/ TopStandsAlone(Ranked, PatternNames)))
    => IsSingleSpecialist

\* two specialists of one category tie below 2.5
C3_Witness ==
    /\ op = "analyze_task"
    /\ SingleCategoryStrong(Ranked, PatternNames)
    /\ Ranked[1].score < 5
    /\ ~TopStandsAlone(Ranked, PatternNames)
    /\ IsSingleSpecialist

(***************************************************************************)
(* Properties of the planner.                                              *)
(***************************************************************************)
PlanReturned == op = "generate_plan" /\ raised = ""

PlanAgentNames == {ret.agents[i].name : i \in 1..Len(ret.agents)}

\* C5: in every plan both ends of every handoff are names of specialists
\* listed in the plan's agents, also when the testing or deployment step
\* falls back to the primary specialist.
C5_HandoffEndsArePlanAgents ==
    PlanReturned =>
        \A i \in 1..Len(ret.handoff_points) :
            /\ ret.handoff_points[i].from_agent \in PlanAgentNames
            /\ ret.handoff_points[i].to_agent \in PlanAgentNames

\* the testing step fell back to the primary specialist and is handed to by
\* another specialist
C5_Witness ==
    /\ PlanReturned
    /\ \A i \in 1..Len(ret.agents) :
           ~str_in("Tester", ret.agents[i].name) /\ ~str_in("Checker", ret.agents[i].name)
    /\ \E i \in 2..Len(ret.sequence) :
           /\ ret.sequence[i].action = "Test implementation and validate requirements"
           /\ ret.sequence[i].agent = ret.agents[1].name
           /\ ret.sequence[i - 1].agent # ret.sequence[i].agent
           /\ ret.handoff_points[Len(ret.handoff_points)].to_agent = ret.agents[1].name

\* the hours the plan format gives each phase
PhaseHours(step) ==
    CASE step.action = "Gather and document requirements" -> 2
      [] step.action = "Design system architecture and user interface" -> 4
      [] step.action = "Test implementation and validate requirements" -> 3
      [] step.action = "Deploy to production and setup monitoring" -> 4
      [] OTHER -> 6

RECURSIVE SumPhaseHours(_)
SumPhaseHours(sequence) ==
    IF Len(sequence) = 0 THEN 0
    ELSE PhaseHours(sequence[1]) + SumPhaseHours(Tail(sequence))

\* C6: in every plan estimated_time.total is the sum of the step durations
\* (2h requirements, 4h design, 6h per implementation step, 3h testing, 4h
\* deployment) and the breakdown has exactly one entry per step number.
C6_TotalIsSumOfDurations ==
    PlanReturned =>
        /\ ret.estimated_time.total = SumPhaseHours(ret.sequence)
        /\ DOMAIN ret.estimated_time.breakdown = 1..Len(ret.sequence)
        /\ \A i \in 1..Len(ret.sequence) :
               ret.estimated_time.breakdown[ret.sequence[i].step_number]
                   = ret.sequence[i].duration

\* a plan with a requirements, a design, an implementation and a testing step
C6_Witness ==
    /\ PlanReturned
    /\ \E i \in 1..Len(ret.sequence) :
           ret.sequence[i].action = "Design system architecture and user interface"
    /\ \E i \in 1..Len(ret.sequence) :
           ret.sequence[i].action = "Test implementation and validate requirements"
    /\ ret.estimated_time.total = 15

\* C7: select_agent, analyze_task and generate_plan never raise for any task
\* value (empty, whitespace, punctuation, None, an integer), and when nothing
\* matches the result resolves to the default specialist.
C7_NeverRaises ==
    op \in {"select_agent", "analyze_task", "generate_plan"} =>
        /\ raised = ""
        /\ (op = "select_agent" /\ Len(Ranked) = 0) => ret = DefaultSpecialist
        /\ (op = "analyze_task" /\ Len(Ranked) = 0) => ret.required_agents = <<DefaultSpecialist>>
        /\ (op = "generate_plan" /\ Len(Ranked) = 0) =>
               PlanAgentNames = {DefaultSpecialist.name}

WhitespaceOnly(s) == \A i \in 1..Len(s) : CharAt(s, i) \in {" ", "\t", "\n"}

\* C8: for every task that is empty or made of spaces, tabs and newlines
\* only, select_agent returns the catalog's default specialist.
C8_BlankTaskSelectsDefault ==
    (op = "select_agent" /\ is_str(task) /\ WhitespaceOnly(task.str)) => ret = DefaultSpecialist

\* a task of tabs, newlines and a blank, on the catalog whose default record
\* is flagged and is not the first engineering record
C8_Witness ==
    /\ op = "select_agent"
    /\ is_str(task)
    /\ Len(task.str) >= 3
    /\ WhitespaceOnly(task.str)
    /\ ret.is_default
    /\ ret # with_category(agents[1].agents[1], agents[1].category)

\* C9: required_agents of analyze_task has at least one element, and at most
\* five when is_multi_agent is true.
C9_RequiredAgentsBounded ==
    op = "analyze_task" =>
        /\ Len(ret.required_agents) >= 1
        /\ ret.is_multi_agent => Len(ret.required_agents) <= 5

\* more than five candidates are similar and five are returned
C9_Witness ==
    /\ op = "analyze_task"
    /\ ret.is_multi_agent
    /\ Len(ret.required_agents) = 5
    /\ Len(similar_agents(Ranked, PatternNames)) > 5

FallbackResult(ranked) ==
    /\ ~ret.is_multi_agent
    /\ ret.required_agents = <<DefaultSpecialist>>
    /\ ret.confidence_score =
           IF Len(ranked) = 0 THEN 0
           ELSE IF 100 + 25 * ranked[1].score < 300 THEN 100 + 25 * ranked[1].score ELSE 300

FallsBack(ranked) == Len(ranked) = 0 \/ ranked[1].score < 4

\* C10: when no specialist has a positive score, or the highest score is
\* below 2.0, analyze_task returns is_multi_agent = false and required_agents =
\* [default specialist], with confidence 0.0 without a candidate and
\* min(0.1 + 0.05 * top_score, 0.3) otherwise.
C10_LowScoreFallsBackToDefault ==
    (op = "analyze_task" /\ FallsBack(Ranked)) => FallbackResult(Ranked)

\* a candidate exists but scores below 2.0
C10_Witness ==
    /\ op = "analyze_task"
    /\ Len(Ranked) >= 1
    /\ Ranked[1].score < 4
    /\ FallbackResult(Ranked)

(***************************************************************************)
(* The multi-agent decision, stated on the ranked candidates.              *)
(***************************************************************************)
\* the candidates within 60% of the top score, and the detector-named ones
\* scoring at least 2.0
SimilarSet(ranked, pattern_names) ==
    {ranked[i].agent : i \in {j \in 1..Len(ranked) :
        \/ 10 * ranked[j].score >= 6 * ranked[1].score
        \/ (ranked[j].agent.name \in pattern_names /\ ranked[j].score >= 4)}}

SeveralNeeded(similar, top_score, pattern_names) ==
    /\ Cardinality(similar) > 1
    /\ \/ Cardinality({a.category : a \in similar}) > 1
       \/ (Cardinality({a.name : a \in similar}) > 1 /\ top_score >= 5)
       \/ Cardinality(pattern_names) > 1

MultiDecision(ranked, pattern_names) ==
    (Len(ranked) >= 2 /\ ranked[1].score >= 4) =>
        /\ ret.is_multi_agent
               = SeveralNeeded(SimilarSet(ranked, pattern_names), ranked[1].score, pattern_names)
        /\ ~ret.is_multi_agent => ret.required_agents = <<ranked[1].agent>>

\* C11: with two or more candidates and a top score of at least 2.0,
\* analyze_task returns is_multi_agent = true exactly when the similar set has
\* more than one member and spans several categories, or has several names
\* with a top score of at least 2.5, or the detectors named several
\* specialists; otherwise it returns the single top candidate.
C11_MultiExactlyOnUnionOfConditions ==
    op = "analyze_task" => MultiDecision(Ranked, PatternNames)

MiddleConditionDecides(ranked, pattern_names) ==
    /\ Len(ranked) >= 2
    /\ ranked[1].score = 5
    /\ Cardinality({ranked[i].agent.category : i \in 1..Len(ranked)}) = 1
    /\ Cardinality(pattern_names) <= 1
    /\ Cardinality(SimilarSet(ranked, pattern_names)) > 1

\* one category, no detector, a top score of exactly 2.5: the several-names
\* condition alone makes the result multi-agent
C11_Witness ==
    /\ op = "analyze_task"
    /\ MiddleConditionDecides(Ranked, PatternNames)
    /\ ret.is_multi_agent
    /\ Len(ret.required_agents) > 1

\* the steps after which the specialist changes
Boundaries(sequence) ==
    {i \in 1..(Len(sequence) - 1) : sequence[i].agent # sequence[i + 1].agent}

\* the k-th of them in step order
KthBoundary(sequence, k) ==
    CHOOSE i \in Boundaries(sequence) :
        Cardinality({j \in Boundaries(sequence) : j < i}) = k - 1

\* C12: in every plan handoff_points holds, in step order, exactly one handoff
\* for each adjacent pair of steps whose specialists differ and none for the
\* others; a handoff carries the two specialists, the deliverable of the
\* earlier step and at least two success criteria.
C12_OneHandoffPerChangeOfSpecialist ==
    PlanReturned =>
        /\ Len(ret.handoff_points) = Cardinality(Boundaries(ret.sequence))
        /\ \A k \in 1..Len(ret.handoff_points) :
               LET i == KthBoundary(ret.sequence, k)
                   h == ret.handoff_points[k]
               IN  /\ h.from_agent = ret.sequence[i].agent
                   /\ h.to_agent = ret.sequence[i + 1].agent
                   /\ h.deliverable = ret.sequence[i].deliverable
                   /\ Len(h.success_criteria) >= 2

\* several handoffs, and an adjacent pair of steps of one specialist
C12_Witness ==
    /\ PlanReturned
    /\ Len(ret.handoff_points) >= 2
    /\ \E i \in 1..(Len(ret.sequence) - 1) : ret.sequence[i].agent = ret.sequence[i + 1].agent

\* the phase of a step, read off its action: 1 requirements, 2 design,
\* 3 implementation, 4 testing, 5 deployment
PhaseOf(step) ==
    CASE step.action = "Gather and document requirements" -> 1
      [] step.action = "Design system architecture and user interface" -> 2
      [] step.action = "Test implementation and validate requirements" -> 4
      [] step.action = "Deploy to production and setup monitoring" -> 5
      [] OTHER -> 3

HasDesignRole(name) == str_in("Designer", name) \/ str_in("UX", name)

\* C13: in every plan the steps come in the order requirements, design,
\* implementation, test, deploy: step 1 is the requirements step of the first
\* specialist; with a Designer/UX-named specialist the design step is step 2,
\* ahead of every implementation step; every implementation step is ahead of
\* the testing step; the deployment step, when present, is last.
C13_StepsInPhaseOrder ==
    PlanReturned =>
        /\ PhaseOf(ret.sequence[1]) = 1
        /\ ret.sequence[1].agent = ret.agents[1].name
        /\ (\E i \in 1..Len(ret.agents) : HasDesignRole(ret.agents[i].name)) =>
               /\ Len(ret.sequence) >= 2
               /\ PhaseOf(ret.sequence[2]) = 2
               /\ HasDesignRole(ret.sequence[2].agent)
        /\ \A i, j \in 1..Len(ret.sequence) :
               i < j => /\ PhaseOf(ret.sequence[i]) <= PhaseOf(ret.sequence[j])
                        /\ PhaseOf(ret.sequence[i]) = PhaseOf(ret.sequence[j])
                               => PhaseOf(ret.sequence[i]) = 3
        /\ \A i \in 1..Len(ret.sequence) :
               PhaseOf(ret.sequence[i]) = 5 => i = Len(ret.sequence)

\* a requirements, a design, an implementation and a testing step, the first
\* specialist being the designer
C13_Witness ==
    /\ PlanReturned
    /\ Len(ret.sequence) = 4
    /\ HasDesignRole(ret.agents[1].name)
    /\ PhaseOf(ret.sequence[2]) = 2
    /\ PhaseOf(ret.sequence[3]) = 3
    /\ PhaseOf(ret.sequence[4]) = 4

ResolvesToOne(analysis) == ~analysis.is_multi_agent

\* C14: whenever generate_plan resolves the task to one specialist, the plan's
\* agents has one entry and handoff_points is empty, whichever testing or
\* deployment steps the task text adds.
C14_SingleSpecialistPlanHasNoHandoff ==
    (PlanReturned /\ ResolvesToOne(analyze_task(agents, task))) =>
        /\ Len(ret.agents) = 1
        /\ ret.handoff_points = << >>
        /\ \A i \in 1..Len(ret.sequence) : ret.sequence[i].agent = ret.agents[1].name

\* a plan of one specialist with a testing and a deployment step
C14_Witness ==
    /\ PlanReturned
    /\ Len(ret.agents) = 1
    /\ \E i \in 1..Len(ret.sequence) : PhaseOf(ret.sequence[i]) = 4
    /\ \E i \in 1..Len(ret.sequence) : PhaseOf(ret.sequence[i]) = 5
    /\ ret.handoff_points = << >>

(***************************************************************************)
(* ProtocolEnforcer: the flags of each task and the checks on them.        *)
(***************************************************************************)
TaskIds == {"task-1", "task-2"}

Flags ==
    {"requirements_gathered", "tests_written", "tests_approved", "reflection_complete",
     "implementation_complete", "todo_updated", "git_checks_complete"}

\* self._task_states.get(task_id, {}), as the set of flags that are set
state_of(states, task_id) == IF task_id \in DOMAIN states THEN states[task_id] ELSE {}

\* a mark_* method that replaces the state of the task by the one flag
mark_resetting(states, task_id, flag) ==
    [id \in DOMAIN states \cup {task_id} |->
        IF id = task_id THEN {flag} ELSE states[id]]

\* a mark_* method that sets the flag in the state of every known task
mark_every_task(states, task_id, flag) ==
    [id \in DOMAIN states \cup {task_id} |-> state_of(states, id) \cup {flag}]

\* the body shared by the mark_* methods
mark(states, task_id, flag) ==
    [id \in DOMAIN states \cup {task_id} |->
        IF id = task_id THEN state_of(states, task_id) \cup {flag} ELSE states[id]]

\* ProtocolEnforcer.check_requirements_gathered
check_requirements_gathered(states, task_id) ==
    IF "requirements_gathered" \in state_of(states, task_id)
    THEN [allowed |-> TRUE, message |-> "Requirements gathered"]
    ELSE [allowed |-> FALSE, message |-> "Requirements must be gathered before implementation"]

\* ProtocolEnforcer.check_tests_written
check_tests_written(states, task_id) ==
    IF "tests_written" \in state_of(states, task_id)
    THEN [allowed |-> TRUE, message |-> "Tests written"]
    ELSE [allowed |-> FALSE, message |-> "Tests must be written before implementation"]

\* check_can_implement without the tests on reflection_complete
check_can_implement_no_reflection(states, task_id) ==
    LET state == state_of(states, task_id)
    IN  IF "tests_written" \in state /\ "tests_approved" \in state
        THEN [allowed |-> TRUE, message |-> "Can proceed with implementation"]
        ELSE IF "requirements_gathered" \notin state /\ "tests_written" \notin state
        THEN [allowed |-> FALSE,
              message |-> "Requirements must be gathered before implementation"]
        ELSE [allowed |-> FALSE,
              message |-> "Tests must be written and approved before implementation"]

\* ProtocolEnforcer.check_can_implement
check_can_implement(states, task_id) ==
    LET state == state_of(states, task_id)
        tests_ready == "tests_written" \in state /\ "tests_approved" \in state
        requirements_ready == "requirements_gathered" \in state
        tests_written == "tests_written" \in state
        reflection_complete == "reflection_complete" \in state
    IN  IF tests_written /\ ~reflection_complete
        THEN [allowed |-> FALSE,
              message |-> "Self-reflection required after writing tests before implementation"]
        ELSE IF tests_ready /\ (~tests_written \/ reflection_complete)
        THEN [allowed |-> TRUE, message |-> "Can proceed with implementation"]
        ELSE IF ~requirements_ready /\ ~tests_written
        THEN [allowed |-> FALSE,
              message |-> "Requirements must be gathered before implementation"]
        ELSE [allowed |-> FALSE,
              message |-> "Tests must be written and approved before implementation"]

\* ProtocolEnforcer.check_reflection_required
check_reflection_required(states, task_id) ==
    LET state == state_of(states, task_id)
    IN  IF "tests_written" \in state /\ "reflection_complete" \notin state
        THEN [required |-> TRUE, message |-> "Self-reflection required after writing tests"]
        ELSE [required |-> FALSE, message |-> "Reflection complete or tests not written"]

\* ProtocolEnforcer.check_venv_setup; the two booleans are what os.path.exists
\* answers for the shared virtual environment and for its bin/python
check_venv_setup(venv_exists, python_exists) ==
    [venv_exists |-> venv_exists,
     venv_path |-> "/Users/gaganarora/Desktop/gagan_projects/venv",
     python_exists |-> python_exists,
     ready |-> venv_exists /\ python_exists]

\* ProtocolEnforcer.get_all_protocol_rules, by the names of the rules
get_all_protocol_rules ==
    <<"Requirements Gathering First", "Git Commit Checkpoint", "Logging Standards",
      "Bash Validation", "Code Organization", "Local Testing", "Production-Ready Code",
      "User Decision Points", "Copy-Paste Ready Commands", "Virtual Environment",
      "TODO Tracking">>

\* the flags check_compliance counts, in the order it tests them
ComplianceFlags ==
    <<"requirements_gathered", "tests_written", "tests_approved",
      "implementation_complete", "todo_updated", "git_checks_complete">>

\* the tail of check_compliance: partial credit for the rules not checked, and
\* the percentage (kept in thousandths of a percent, rounded down)
compliance_result(rules_checked, passed, failed) ==
    LET remaining_rules == rules_checked - (passed + failed)
        rules_passed == IF remaining_rules > 0 THEN passed + (remaining_rules \div 2)
                        ELSE passed
        rules_failed == IF remaining_rules > 0
                        THEN failed + (remaining_rules - (remaining_rules \div 2))
                        ELSE failed
    IN  [rules_checked |-> rules_checked,
         rules_passed |-> rules_passed,
         rules_failed |-> rules_failed,
         compliance_percentage |-> (rules_passed * 100000) \div rules_checked]

\* check_compliance without the partial credit for the rules it does not check
check_compliance_no_partial_credit(states, task_id, venv_exists, python_exists) ==
    LET state == state_of(states, task_id)
        flags_set == Cardinality({i \in 1..Len(ComplianceFlags) : ComplianceFlags[i] \in state})
        venv_ready == check_venv_setup(venv_exists, python_exists).ready
        passed == flags_set + (IF venv_ready THEN 1 ELSE 0)
        failed == (Len(ComplianceFlags) - flags_set) + (IF venv_ready THEN 0 ELSE 1)
        rules_checked == Len(get_all_protocol_rules)
    IN  [rules_checked |-> rules_checked,
         rules_passed |-> passed,
         rules_failed |-> failed,
         compliance_percentage |-> (passed * 100000) \div rules_checked]

\* ProtocolEnforcer.check_compliance
check_compliance(states, task_id, venv_exists, python_exists) ==
    LET state == state_of(states, task_id)
        flags_set == Cardinality({i \in 1..Len(ComplianceFlags) : ComplianceFlags[i] \in state})
        venv_ready == check_venv_setup(venv_exists, python_exists).ready
        passed == flags_set + (IF venv_ready THEN 1 ELSE 0)
        failed == (Len(ComplianceFlags) - flags_set) + (IF venv_ready THEN 0 ELSE 1)
    IN  compliance_result(Len(get_all_protocol_rules), passed, failed)

\* ProtocolEnforcer(): an AgentRouter on the loaded catalog and no task state
InitEnforcer ==
    /\ agents = CatalogTeam
    /\ op = "idle"
    /\ task = NoneValue
    /\ raised = ""
    /\ ret = << >>
    /\ task_states = << >>
    /\ Constructed(agents)

MarkRequirementsGathered(task_id) ==
    /\ op = "idle"
    /\ task_states' = mark(task_states, task_id, "requirements_gathered")
    /\ UNCHANGED <<agents, op, task, raised, ret, config_vars>>

MarkTestsWritten(task_id) ==
    /\ op = "idle"
    /\ task_states' = mark(task_states, task_id, "tests_written")
    /\ UNCHANGED <<agents, op, task, raised, ret, config_vars>>

MarkTestsApproved(task_id) ==
    /\ op = "idle"
    /\ task_states' = mark(task_states, task_id, "tests_approved")
    /\ UNCHANGED <<agents, op, task, raised, ret, config_vars>>

MarkReflectionComplete(task_id) ==
    /\ op = "idle"
    /\ task_states' = mark(task_states, task_id, "reflection_complete")
    /\ UNCHANGED <<agents, op, task, raised, ret, config_vars>>

MarkImplementationComplete(task_id) ==
    /\ op = "idle"
    /\ task_states' = mark(task_states, task_id, "implementation_complete")
    /\ UNCHANGED <<agents, op, task, raised, ret, config_vars>>

MarkTodoUpdated(task_id) ==
    /\ op = "idle"
    /\ task_states' = mark(task_states, task_id, "todo_updated")
    /\ UNCHANGED <<agents, op, task, raised, ret, config_vars>>

MarkGitChecksComplete(task_id) ==
    /\ op = "idle"
    /\ task_states' = mark(task_states, task_id, "git_checks_complete")
    /\ UNCHANGED <<agents, op, task, raised, ret, config_vars>>

CheckRequirementsGathered(task_id) ==
    /\ op = "idle"
    /\ op' = "check_requirements_gathered"
    /\ task' = StrValue(task_id)
    /\ raised' = ""
    /\ ret' = check_requirements_gathered(task_states, task_id)
    /\ UNCHANGED <<agents, task_states, config_vars>>

CheckTestsWritten(task_id) ==
    /\ op = "idle"
    /\ op' = "check_tests_written"
    /\ task' = StrValue(task_id)
    /\ raised' = ""
    /\ ret' = check_tests_written(task_states, task_id)
    /\ UNCHANGED <<agents, task_states, config_vars>>

CheckCanImplement(task_id) ==
    /\ op = "idle"
    /\ op' = "check_can_implement"
    /\ task' = StrValue(task_id)
    /\ raised' = ""
    /\ ret' = check_can_implement(task_states, task_id)
    /\ UNCHANGED <<agents, task_states, config_vars>>

CheckReflectionRequired(task_id) ==
    /\ op = "idle"
    /\ op' = "check_reflection_required"
    /\ task' = StrValue(task_id)
    /\ raised' = ""
    /\ ret' = check_reflection_required(task_states, task_id)
    /\ UNCHANGED <<agents, task_states, config_vars>>

CheckCompliance(task_id, venv_exists, python_exists) ==
    /\ op = "idle"
    /\ python_exists => venv_exists
    /\ op' = "check_compliance"
    /\ task' = StrValue(task_id)
    /\ raised' = ""
    /\ ret' = check_compliance(task_states, task_id, venv_exists, python_exists)
    /\ UNCHANGED <<agents, task_states, config_vars>>

NextEnforcer ==
    \/ \E task_id \in TaskIds : MarkRequirementsGathered(task_id)
    \/ \E task_id \in TaskIds : MarkTestsWritten(task_id)
    \/ \E task_id \in TaskIds : MarkTestsApproved(task_id)
    \/ \E task_id \in TaskIds : MarkReflectionComplete(task_id)
    \/ \E task_id \in TaskIds : MarkImplementationComplete(task_id)
    \/ \E task_id \in TaskIds : MarkTodoUpdated(task_id)
    \/ \E task_id \in TaskIds : MarkGitChecksComplete(task_id)
    \/ \E task_id \in TaskIds : CheckRequirementsGathered(task_id)
    \/ \E task_id \in TaskIds : CheckTestsWritten(task_id)
    \/ \E task_id \in TaskIds : CheckCanImplement(task_id)
    \/ \E task_id \in TaskIds : CheckReflectionRequired(task_id)
    \/ \E task_id \in TaskIds : \E venv_exists \in BOOLEAN : \E python_exists \in BOOLEAN :
           CheckCompliance(task_id, venv_exists, python_exists)
    \/ Return

SpecEnforcer == InitEnforcer /\ [][NextEnforcer]_vars

FlagsOfTask == state_of(task_states, task.str)

C17_NoImplementationBeforeRequirements ==
    (op = "check_can_implement" /\ ret.allowed) => "requirements_gathered" \in FlagsOfTask

(***************************************************************************)
(* Properties of the look-up by name.                                      *)
(***************************************************************************)
IsBlank(s) == \A i \in 1..Len(s) : CharAt(s, i) \in Whitespace

\* C15: get_agent_by_name returns None, without raising, for every non-blank
\* name that is not in the catalog, returns the record of a name that is, and
\* raises ValidationError for an empty or whitespace-only name.
C15_NotFoundIsNoneBlankIsError ==
    (op = "get_agent_by_name" /\ is_str(task)) =>
        /\ IsBlank(task.str) => raised = "ValidationError"
        /\ (~IsBlank(task.str) /\ task.str \notin CatalogNames) =>
               raised = "" /\ ret = NoneValue
        /\ task.str \in CatalogNames =>
               /\ raised = ""
               /\ ret.name = task.str
               /\ \E i \in 1..Len(AllAgents) : ret = AllAgents[i]

\* a name of the catalog written with a leading blank is not found
C15_Witness ==
    /\ op = "get_agent_by_name"
    /\ is_str(task)
    /\ task.str \notin CatalogNames
    /\ str_strip(task.str) \in CatalogNames
    /\ raised = ""
    /\ ret = NoneValue

\* the number of groups the frontend/backend rule emits
FrontBackGroups ==
    IF /\ \E i \in 1..Len(ret.agents) : str_in("Frontend", ret.agents[i].name)
       /\ \E i \in 1..Len(ret.agents) : str_in("Backend", ret.agents[i].name)
    THEN 1 ELSE 0

HasSupportRole(name) ==
    \/ str_in("Designer", name) \/ str_in("UX", name)
    \/ str_in("Tester", name) \/ str_in("Checker", name)
    \/ str_in("Product", name)

\* C19: with three or more specialists the second parallel group is emitted
\* only with at least two members and holds no design-role, testing-role or
\* product-role specialist; with fewer than three specialists it is not
\* emitted.
C19_SecondGroupHoldsImplementersOnly ==
    PlanReturned =>
        /\ Len(ret.parallel_groups) <= FrontBackGroups + 1
        /\ Len(ret.agents) < 3 => Len(ret.parallel_groups) = FrontBackGroups
        /\ Len(ret.parallel_groups) > FrontBackGroups =>
               /\ Len(ret.parallel_groups[FrontBackGroups + 1]) >= 2
               /\ \A i \in 1..Len(ret.parallel_groups[FrontBackGroups + 1]) :
                      ~HasSupportRole(ret.parallel_groups[FrontBackGroups + 1][i])

(***************************************************************************)
(* Properties of AgentConfig.                                              *)
(***************************************************************************)
FailedLoadAttempt ==
    op \in {"AgentConfig", "_load_from_path"} /\ raised = "AgentConfigError"

\* C18: after any failed load attempt on an AgentConfig (a constructor call
\* with a missing or invalid path, or _load_from_path on such a path), a
\* following reload() succeeds and leaves agents set to a valid, non-empty
\* catalog.
C18_ReloadSucceedsAfterFailedLoad ==
    [][(FailedLoadAttempt /\ op' = "reload") =>
          (raised' = "" /\ Len(agents') > 0 /\ validate_config(agents'))]_vars

\* a construction that finds the cache made for its path reads no file and
\* exposes the cached object
ServedFromCache ==
    (op' = "AgentConfig" /\ config_cache # NoneValue /\ cached_path = task'.str) =>
        /\ reads' = reads
        /\ raised' = ""
        /\ config_cache' = config_cache
        /\ agents_id' = config_cache.id
        /\ agents' = config_cache.content

\* C20 as stated: constructions with the path of the cache read no file and
\* expose the cached catalog object, and a file is read only by reload() or by
\* a construction that finds the cache empty, as clear_cache() leaves it.
C20_OnlyReloadAndClearCacheLoad ==
    [][/\ ServedFromCache
       /\ reads' # reads =>
              (op' = "reload" \/ (op' = "AgentConfig" /\ config_cache = NoneValue))]_vars

\* C20 amended: constructions with the path of the cache read no file and
\* expose the cached catalog object; a file is read only by reload(), by
\* _load_from_path() and by a construction that finds the cache empty or made
\* for another path.
C20_LoadedOncePerPathUntilReload ==
    [][/\ ServedFromCache
       /\ reads' # reads =>
              \/ op' \in {"reload", "_load_from_path"}
              \/ (op' = "AgentConfig"
                     /\ (config_cache = NoneValue \/ cached_path # task'.str))]_vars

\* a construction gave back the cached object, loaded first, after
\* _load_from_path had put a later object in self.agents
C20_Witness ==
    /\ op = "AgentConfig"
    /\ raised = ""
    /\ reads = 2
    /\ config_cache # NoneValue
    /\ config_cache.id = 1
    /\ agents_id = 1
    /\ cached_path = task.str

(***************************************************************************)
(* Properties of the ranking.                                              *)
(***************************************************************************)
\* the score analyze_task gives a record for the task of the call
ScoreOf(record) == boosted_score(TaskLower, record, PatternNames)

\* the place of a record in the catalog
CatalogIndex(record) == CHOOSE i \in 1..Len(AllAgents) : AllAgents[i] = record

\* a ranks ahead of b: a higher score, or the same score and earlier in the
\* catalog
RanksAhead(a, b) ==
    \/ ScoreOf(a) > ScoreOf(b)
    \/ (ScoreOf(a) = ScoreOf(b) /\ CatalogIndex(a) < CatalogIndex(b))

SomeScoreReachesThreshold == \E i \in 1..Len(AllAgents) : ScoreOf(AllAgents[i]) >= 4

\* C21: analyze_task keeps only specialists with a strictly positive score,
\* ranked by descending score with equal scores in catalog order; unless the
\* result is the default fallback, the first required specialist is the
\* highest-ranked candidate.
C21_PrimaryIsHighestRanked ==
    (op = "analyze_task" /\ SomeScoreReachesThreshold) =>
        /\ \A k \in 1..Len(ret.required_agents) : ScoreOf(ret.required_agents[k]) > 0
        /\ \A k, l \in 1..Len(ret.required_agents) :
               k < l => RanksAhead(ret.required_agents[k], ret.required_agents[l])
        /\ \A i \in 1..Len(AllAgents) :
               AllAgents[i] # ret.required_agents[1]
                   => RanksAhead(ret.required_agents[1], AllAgents[i])

\* the primary comes later in the catalog than the second specialist, and the
\* second and third tie and keep their catalog order
C21_Witness ==
    /\ op = "analyze_task"
    /\ Len(ret.required_agents) >= 3
    /\ CatalogIndex(ret.required_agents[1]) > CatalogIndex(ret.required_agents[2])
    /\ ScoreOf(ret.required_agents[2]) = ScoreOf(ret.required_agents[3])
    /\ CatalogIndex(ret.required_agents[2]) < CatalogIndex(ret.required_agents[3])

\* C22: for every string task, select_agent returns the first element of
\* analyze_task's required_agents for the same task, also for empty and
\* whitespace-only tasks and for tasks that select_agent strips.
C22_SelectIsPrimaryOfAnalysis ==
    (op = "select_agent" /\ is_str(task)) =>
        ret = analyze_task(agents, task).required_agents[1]

\* a task with whitespace at an end, which select_agent strips and
\* analyze_task does not, resolved to a specialist that is not the default
C22_Witness ==
    /\ op = "select_agent"
    /\ is_str(task)
    /\ str_strip(task.str) # task.str
    /\ str_strip(task.str) # ""
    /\ ret # DefaultSpecialist

\* C23: is_multi_agent is true exactly when required_agents has two or more
\* elements, false exactly when it has one, and required_agents never holds
\* the same specialist twice.
C23_MultiIffSeveralDistinctRequired ==
    op = "analyze_task" =>
        /\ ret.is_multi_agent <=> Len(ret.required_agents) >= 2
        /\ ~ret.is_multi_agent <=> Len(ret.required_agents) = 1
        /\ \A k, l \in 1..Len(ret.required_agents) :
               ret.required_agents[k].name = ret.required_agents[l].name => k = l

\* a detector-named specialist below the 60% window is required next to the
\* top candidate
C23_Witness ==
    /\ op = "analyze_task"
    /\ ret.is_multi_agent
    /\ \E k \in 2..Len(ret.required_agents) :
           /\ ret.required_agents[k].name \in PatternNames
           /\ 10 * ScoreOf(ret.required_agents[k]) < 6 * ScoreOf(ret.required_agents[1])

\* the detector names the tests of the repository find in its catalog
AttestedDetectorNames ==
    {"Frontend Developer", "Backend Architect", "UI Designer", "Reality Checker"}

\* C24: every specialist name the pattern detectors emit is the name of a
\* specialist in the catalog, so that whenever a detector fires its
\* specialist receives the +3.0 boost and the detector names the
\* multi-specialist rule counts are catalog specialists.
C24_DetectorNamesAreCatalogNames ==
    (op = "analyze_task" /\ AttestedDetectorNames \subseteq CatalogNames) =>
        \A name \in PatternNames :
            /\ name \in CatalogNames
            /\ \E i \in 1..Len(AllAgents) :
                   AllAgents[i].name = name /\ ScoreOf(AllAgents[i]) >= 6

\* C25: in every plan the handoffs form a chain: each handoff has a
\* from_agent different from its to_agent, and the to_agent of a handoff is
\* the from_agent of the handoff after it.
C25_HandoffsFormAChain ==
    PlanReturned =>
        \A k \in 1..Len(ret.handoff_points) :
            /\ ret.handoff_points[k].from_agent # ret.handoff_points[k].to_agent
            /\ k < Len(ret.handoff_points) =>
                   ret.handoff_points[k].to_agent = ret.handoff_points[k + 1].from_agent

\* a chain of three handoffs over at least three specialists
C25_Witness ==
    /\ PlanReturned
    /\ Len(ret.handoff_points) >= 3
    /\ Cardinality({ret.handoff_points[k].from_agent : k \in 1..Len(ret.handoff_points)}) >= 3

\* C26: in every plan returned by generate_plan, every specialist listed in
\* the plan's agents is attributed at least one step of sequence.
C26_EveryPlanAgentHasAStep ==
    PlanReturned =>
        \A i \in 1..Len(ret.agents) :
            \E n \in 1..Len(ret.sequence) : ret.sequence[n].agent = ret.agents[i].name

(***************************************************************************)
(* Properties of the progress of a task through the protocol.              *)
(***************************************************************************)
CheckOps ==
    {"check_requirements_gathered", "check_tests_written", "check_can_implement",
     "check_reflection_required", "check_compliance"}

\* C27: protocol progress is monotonic: no operation removes a flag of a task,
\* so a task for which check_requirements_gathered, check_tests_written or
\* check_can_implement answers allowed = true keeps that answer after every
\* later mark or check operation.
C27_ProgressIsMonotonic ==
    [][\A task_id \in TaskIds :
          /\ state_of(task_states, task_id) \subseteq state_of(task_states', task_id)
          /\ check_requirements_gathered(task_states, task_id).allowed
                 => check_requirements_gathered(task_states', task_id).allowed
          /\ check_tests_written(task_states, task_id).allowed
                 => check_tests_written(task_states', task_id).allowed
          /\ check_can_implement(task_states, task_id).allowed
                 => check_can_implement(task_states', task_id).allowed]_vars

\* implementation is still allowed after every other flag of the task was marked
C27_Witness ==
    /\ op = "check_can_implement"
    /\ ret.allowed
    /\ FlagsOfTask = Flags

\* C28: task states are isolated and checks are read-only: a mark_* call adds
\* one flag to the state of its task and leaves the state of every other task
\* as it was, and a check_* call, also one for a task id never seen before,
\* leaves the whole map of task states unchanged.
C28_MarksAreIsolatedChecksReadOnly ==
    [][/\ op' \in CheckOps => task_states' = task_states
       /\ task_states' # task_states =>
              \E task_id \in TaskIds : \E flag \in Flags :
                  /\ state_of(task_states', task_id) = state_of(task_states, task_id) \cup {flag}
                  /\ DOMAIN task_states' = DOMAIN task_states \cup {task_id}
                  /\ \A other \in DOMAIN task_states \ {task_id} :
                         task_states'[other] = task_states[other]]_vars

\* a check was answered for a task id never marked while another task has flags
C28_Witness ==
    /\ op \in CheckOps
    /\ task.str \notin DOMAIN task_states
    /\ \E other \in DOMAIN task_states : Cardinality(task_states[other]) >= 2

\* C29: for every task id and every task state check_compliance returns
\* rules_checked = 11 and rules_passed + rules_failed = rules_checked, and
\* marking a further flag for the task never decreases rules_passed.
C29_ComplianceCountsAddUpAndGrow ==
    /\ [](op = "check_compliance" =>
              /\ ret.rules_checked = 11
              /\ ret.rules_passed + ret.rules_failed = ret.rules_checked)
    /\ [][\A task_id \in TaskIds : \A venv_exists \in BOOLEAN : \A python_exists \in BOOLEAN :
              check_compliance(task_states', task_id, venv_exists, python_exists).rules_passed
                  >= check_compliance(task_states, task_id, venv_exists,
                                      python_exists).rules_passed]_vars

\* every counted flag is marked and the virtual environment is ready: nine of eleven
C29_Witness ==
    /\ op = "check_compliance"
    /\ ret.rules_passed = 9
    /\ ret.rules_failed = 2

(***************************************************************************)
(* Properties of the router's use of the cached catalog.                   *)
(***************************************************************************)
\* the catalog as the load of the cached path read it from the file
CatalogAsLoaded == files[cached_path].dict

\* C30: the cached catalog is read-only to the router: select_agent,
\* analyze_task, generate_coordination_plan and get_agent_protocols leave
\* every record of the cached catalog unchanged, so the catalog read after
\* any sequence of these calls equals the catalog as loaded.
C30_RouterLeavesCachedCatalogUnchanged ==
    /\ config_cache.content = CatalogAsLoaded
    /\ agents = CatalogAsLoaded

====
